---- MODULE Spec2Model ----
(***************************************************************************)
(* State-machine model of the ImageSubuV1 content scripts.                 *)
(*                                                                         *)
(* Three scripts are modelled, one per value of `variant`:                 *)
(*   "content"   src/extension/scripts/content.js (overlay only)           *)
(*   "base"      src/unnamed/part_000 lines 1-224 (overlay + settings)     *)
(*   "selection" src/unnamed/part_000 lines 226-650 (select + export)      *)
(*                                                                         *)
(* Numbers.  Intensities are kept in half units (0.5 -> 1, 20 -> 40,       *)
(* 100 -> 200) and opacities in units of 0.005, so that intensity / 100    *)
(* expressed in opacity units is the same integer as the intensity in      *)
(* half units.                                                             *)
(***************************************************************************)
EXTENDS Integers, Sequences, FiniteSets, TLC

\* ---------------------------------------------------------------- bounds
NumImages == 2
MaxDepth == 2
NumSeeds == 2
MaxListeners == 2
MaxExports == 1

\* ------------------------------------------------------ program constants
\* DEFAULT_SETTINGS.intensity = 20
DefaultIntensity == 40
\* clamp(parsedIntensity, 0.5, 100)
MinIntensity == 1
MaxIntensity == 200
\* clamp(intensity / 100, 0.005, 1)
MinOpacity == 1
MaxOpacity == 200

DefaultNoiseType == "uniform"
SUPPORTED_NOISE_TYPES == {"uniform", "gaussian"}
DEFAULT_SETTINGS == [noiseType |-> DefaultNoiseType, intensity |-> DefaultIntensity]

Imgs == 1..NumImages
NoImage == 0

\* ------------------------------------------------------------- JS values
\* A JavaScript value: its type tag, its number (half units) and its text.
Undefined == [t |-> "undefined", n |-> 0, s |-> ""]
Null == [t |-> "null", n |-> 0, s |-> ""]
Bool(b) == [t |-> "boolean", n |-> IF b THEN 2 ELSE 0, s |-> ""]
Num(h) == [t |-> "number", n |-> h, s |-> ""]
NaNValue == [t |-> "number", n |-> 0, s |-> "NaN"]
Str(s) == [t |-> "string", n |-> 0, s |-> s]
EmptyArray == [t |-> "array", n |-> 0, s |-> ""]
Object == [t |-> "object", n |-> 0, s |-> ""]

\* The result of Number(v): NaN, or a number in half units.
NaN == [nan |-> TRUE, n |-> 0]
Finite(h) == [nan |-> FALSE, n |-> h]

\* StringToNumber: the empty and blank strings are 0, a decimal literal is
\* its value, anything else is NaN.
StringToNumber(s) ==
  CASE s = "" -> Finite(0)
    [] s = " " -> Finite(0)
    [] s = "0.5" -> Finite(1)
    [] s = "50" -> Finite(100)
    [] s = "250" -> Finite(500)
    [] OTHER -> NaN

\* Number(value) of ECMAScript, as used on settings.intensity.
Number(v) ==
  CASE v.t = "undefined" -> NaN
    [] v.t = "null" -> Finite(0)
    [] v.t = "boolean" -> Finite(v.n)
    [] v.t = "number" -> IF v.s = "NaN" THEN NaN ELSE Finite(v.n)
    [] v.t = "string" -> StringToNumber(v.s)
    [] v.t = "array" -> StringToNumber("")
    [] OTHER -> NaN

Min2(a, b) == IF a < b THEN a ELSE b
Max2(a, b) == IF a > b THEN a ELSE b
clamp(value, min, max) == Min2(Max2(value, min), max)

\* ---------------------------------------------------------------- settings
\* A raw settings argument: a payload, the stored items, or a settings
\* object.  isObj is FALSE for null and undefined; an absent field reads as
\* undefined.
RawObject(nt, it) == [isObj |-> TRUE, noiseType |-> nt, intensity |-> it]
NoSettings == [isObj |-> FALSE, noiseType |-> Undefined, intensity |-> Undefined]
\* { ...currentSettings } and DEFAULT_SETTINGS as arguments of applySettings.
AsRaw(settings) == RawObject(Str(settings.noiseType), Num(settings.intensity))

IsSupportedType(v) == v.t = "string" /\ v.s \in SUPPORTED_NOISE_TYPES

normalizeSettings_KeepType(settings) ==
  LET parsedIntensity == Number(settings.intensity)
  IN  [noiseType |-> IF settings.isObj /\ settings.noiseType.t = "string"
                     THEN settings.noiseType.s ELSE DEFAULT_SETTINGS.noiseType,
       intensity |-> IF ~parsedIntensity.nan
                     THEN clamp(parsedIntensity.n, MinIntensity, MaxIntensity)
                     ELSE DEFAULT_SETTINGS.intensity]

normalizeSettings_DropClamp(settings) ==
  LET parsedIntensity == Number(settings.intensity)
  IN  [noiseType |-> IF settings.isObj /\ IsSupportedType(settings.noiseType)
                     THEN settings.noiseType.s ELSE DEFAULT_SETTINGS.noiseType,
       intensity |-> IF ~parsedIntensity.nan
                     THEN parsedIntensity.n ELSE DEFAULT_SETTINGS.intensity]

normalizeSettings(settings) ==
  LET parsedIntensity == Number(settings.intensity)
  IN  [noiseType |-> IF settings.isObj /\ IsSupportedType(settings.noiseType)
                     THEN settings.noiseType.s ELSE DEFAULT_SETTINGS.noiseType,
       intensity |-> IF ~parsedIntensity.nan
                     THEN clamp(parsedIntensity.n, MinIntensity, MaxIntensity)
                     ELSE DEFAULT_SETTINGS.intensity]

overlayOpacityFromIntensity_Per200(intensity) ==
  clamp(intensity \div 2, MinOpacity, MaxOpacity)

\* clamp(intensity / 100, 0.005, 1), in units of 0.005; the style holds the
\* decimal numeral of that number.
overlayOpacityFromIntensity(intensity) == clamp(intensity, MinOpacity, MaxOpacity)

\* ---------------------------------------------------------------- textures
\* createNoisePattern / createNoiseDataUrl: '' when no 2D context can be had,
\* else a data URL of freshly drawn random pixels (the seed stands for them).
EmptyPattern == [empty |-> TRUE, type |-> "", seed |-> 0]
Pattern(type, seed) == [empty |-> FALSE, type |-> type, seed |-> seed]
Seeds == 1..NumSeeds
createNoisePattern(type) == {EmptyPattern} \cup {Pattern(type, sd) : sd \in Seeds}

\* --------------------------------------------------------------------- state
VARIABLES
  variant,               \* which of the three scripts runs in the page
  hasChrome,             \* typeof chrome !== 'undefined' (chromeApi non-null)
  phase,                 \* "loading" until start() has scanned / listened
  currentSettings,       \* let currentSettings
  noisePattern,          \* let noisePattern
  selectedImage,         \* let selectedImage (NoImage for null)
  selectionModeEnabled,  \* let selectionModeEnabled
  clickInterceptor,      \* selectionClickHandler is registered on document
  images,                \* the image elements and what the script hung on them
  pendingMutations,      \* MutationObserver records not yet delivered
  lastNotification,      \* hasSelected of the last ANI_SELECTION_CHANGED sent
  last,                  \* the event just handled and what it sent, until delivered
  fnIn, fnOut,           \* argument and result of a normalizeSettings call
  fnOpacity              \* the overlay opacity derived from that result

vars == <<variant, hasChrome, phase, currentSettings, noisePattern, selectedImage,
          selectionModeEnabled, clickInterceptor, images, pendingMutations,
          lastNotification, last, fnIn, fnOut, fnOpacity>>

sysVars == <<variant, hasChrome, phase, currentSettings, noisePattern, selectedImage,
             selectionModeEnabled, clickInterceptor, images, pendingMutations,
             lastNotification, last>>

Variants == {"content", "base", "selection"}
LoadStates == {"pending", "partial", "loaded", "broken"}

\* image.complete and image.naturalWidth / naturalHeight by load state:
\* "partial" is an image whose dimensions are known while it still loads,
\* "broken" one whose load failed (complete, no dimensions).
Complete(img) == img.load \in {"loaded", "broken"}
HasNaturalSize(img) == img.load \in {"partial", "loaded"}

\* An image element: whether it is in the document, how deep in the inserted
\* node it sat, whether it came after observe(), the data-ani-noise-applied
\* attribute, whether a .ani-noise-wrapper encloses it, the overlays of that
\* wrapper, the pending doApply load listeners, the selected class and the
\* pending export onLoad listeners.
NewImage ==
  [inDoc |-> FALSE, afterStart |-> FALSE, depth |-> 0, load |-> "pending",
   applied |-> FALSE, wrapped |-> FALSE, overlays |-> <<>>, listeners |-> 0,
   selected |-> FALSE, waiters |-> 0]

\* ------------------------------------------------------------ overlay manager
applyOverlaySettings(settings, pattern) ==
  [backgroundImage |-> pattern,
   opacity |-> overlayOpacityFromIntensity(settings.intensity)]

\* content.js sets no opacity on the overlay (0 stands for the unset style).
createOverlay(v, settings, pattern) ==
  IF v = "content"
  THEN [backgroundImage |-> pattern, opacity |-> 0]
  ELSE applyOverlaySettings(settings, pattern)

\* ensureWrapper: the closest wrapper, a new one around the image, or null
\* (FALSE) for an image without a parent.
ensureWrapper(img) == img.wrapped \/ img.inDoc

doApply_AlwaysAppend(im, i, v, settings, pattern) ==
  IF ~ensureWrapper(im[i]) THEN im
  ELSE [im EXCEPT ![i].wrapped = TRUE,
                  ![i].overlays = Append(@, createOverlay(v, settings, pattern)),
                  ![i].applied = TRUE]

doApply(im, i, v, settings, pattern) ==
  IF ~ensureWrapper(im[i]) THEN im
  ELSE IF Len(im[i].overlays) > 0
  THEN [im EXCEPT ![i].wrapped = TRUE,
                  ![i].overlays[1] = IF v = "selection"
                                     THEN applyOverlaySettings(settings, pattern)
                                     ELSE @,
                  ![i].applied = TRUE]
  ELSE [im EXCEPT ![i].wrapped = TRUE,
                  ![i].overlays = Append(@, createOverlay(v, settings, pattern)),
                  ![i].applied = TRUE]

applyNoise_Eager(im, i, v, settings, pattern) ==
  IF i = NoImage THEN im
  ELSE IF v # "selection" /\ im[i].applied THEN im
  ELSE doApply(im, i, v, settings, pattern)

\* applyNoise(image): nothing for an image already marked (overlay scripts);
\* doApply at once for a complete image with a natural width, else doApply
\* as a one-time load listener.
applyNoise(im, i, v, settings, pattern) ==
  IF i = NoImage THEN im
  ELSE IF v # "selection" /\ im[i].applied THEN im
  ELSE IF Complete(im[i]) /\ HasNaturalSize(im[i])
  THEN doApply(im, i, v, settings, pattern)
  ELSE [im EXCEPT ![i].listeners = @ + 1]

\* forEach(applyNoise) over a set of images (the calls commute: each touches
\* its own image only).
RECURSIVE applyNoiseAll(_, _, _, _, _)
applyNoiseAll(im, S, v, settings, pattern) ==
  IF S = {} THEN im
  ELSE LET i == CHOOSE x \in S : TRUE
       IN  applyNoiseAll(applyNoise(im, i, v, settings, pattern), S \ {i},
                         v, settings, pattern)

\* The load event of image i runs its k registered doApply listeners in turn.
RECURSIVE runListeners(_, _, _, _, _, _)
runListeners(im, i, k, v, settings, pattern) ==
  IF k = 0 THEN im
  ELSE runListeners(doApply(im, i, v, settings, pattern), i, k - 1,
                    v, settings, pattern)

removeOverlay(im, i) ==
  IF ~im[i].wrapped THEN im
  ELSE [im EXCEPT ![i].overlays = IF Len(@) > 0 THEN Tail(@) ELSE @,
                  ![i].applied = FALSE]

refreshAllOverlays_Skip(im, settings, pattern) == im

\* refreshAllOverlays: applyOverlaySettings on every overlay of the document.
refreshAllOverlays(im, settings, pattern) ==
  [i \in Imgs |->
     [im[i] EXCEPT !.overlays =
        [k \in 1..Len(im[i].overlays) |-> applyOverlaySettings(settings, pattern)]]]

InDocument(im) == {i \in Imgs : im[i].inDoc}

\* ------------------------------------------------------- mutation observer
\* A MutationObserver record's added node: an image element, or another
\* element with the images found below it by querySelectorAll('img').
Rec(node, imgs) == [node |-> node, imgs |-> imgs]

Observing == variant # "selection" /\ phase = "started"

\* The child-list records of the DOM changes doApply made between im and
\* after: the wrapper inserted before the image (it holds the image by the
\* time the callback looks), the image appended to it, the overlay appended.
MutationsOf(im, after) ==
  UNION {IF ~im[i].wrapped /\ after[i].wrapped
         THEN {Rec("element", {i}), Rec("img", {i})} ELSE {} : i \in Imgs}
  \cup (IF \E i \in Imgs : Len(after[i].overlays) > Len(im[i].overlays)
        THEN {Rec("element", {})} ELSE {})

ObservedImages_ImageNodesOnly(rec) ==
  IF rec.node = "img" THEN rec.imgs ELSE {}

\* The images one added node hands to applyNoise.
ObservedImages(rec) ==
  IF rec.node = "img" THEN rec.imgs
  ELSE IF rec.node = "element" THEN rec.imgs
  ELSE {}

ListenersBounded(im) ==
  \A i \in Imgs : im[i].listeners <= MaxListeners /\ im[i].waiters <= MaxExports

\* ------------------------------------------------------------ responses
\* The user-facing messages (Korean in the source), by meaning.
MSG_SELECT_FIRST == "select-an-image-first"
MSG_NO_SELECTED_IMAGE == "no-selected-image"
MSG_DIMENSIONS == "cannot-read-image-size"
MSG_CONTEXT == "canvas-context-creation-failed"
MSG_SECURITY == "cannot-save-because-of-security-restriction"
MSG_SAVE_FAILED == "image-save-failed"

RespOk == [kind |-> "ok", ok |-> TRUE, error |-> "", hasSelected |-> FALSE]
RespError(msg) == [kind |-> "error", ok |-> FALSE, error |-> msg, hasSelected |-> FALSE]
RespState(b) == [kind |-> "state", ok |-> FALSE, error |-> "", hasSelected |-> b]
RespExport == [kind |-> "export", ok |-> TRUE, error |-> "", hasSelected |-> FALSE]

\* What one handler run sent: its sendResponse answers, the hasSelected of
\* its ANI_SELECTION_CHANGED messages, its ANI_NOISE_APPLIED_FEEDBACK messages.
Event(op, resp, notes) ==
  [op |-> op, resp |-> resp, notes |-> notes, feedback |-> <<>>]
NoEvent == Event("none", <<>>, <<>>)

\* ---------------------------------------------------------------- export
\* What drawImage / getImageData / putImageData / toDataURL can throw inside
\* finalize.  A cross-origin image taints the canvas and the pixel read
\* throws a SecurityError whose message text is the browser's own wording.
SecurityErrors ==
  {[name |-> "SecurityError",
    message |-> "The canvas has been tainted by cross-origin data."],
   [name |-> "SecurityError", message |-> "The operation is insecure."]}
OtherErrors ==
  {[name |-> "RangeError", message |-> "Out of memory"],
   [name |-> "Error", message |-> ""]}
ThrownErrors == SecurityErrors \cup OtherErrors

\* /tainted|cross-origin|security/i.test(message), on the messages above.
MatchesSecurityPattern(message) ==
  CASE message = "The canvas has been tainted by cross-origin data." -> TRUE
    [] message = "The operation is insecure." -> FALSE
    [] message = "Out of memory" -> FALSE
    [] OTHER -> FALSE

Resolved == [ok |-> TRUE, error |-> [name |-> "", message |-> ""]]
Rejected(e) == [ok |-> FALSE, error |-> e]
Failure(msg) == Rejected([name |-> "Error", message |-> msg])

\* finalize(): resolves with the data URL or rejects with what was thrown.
FinalizeOutcomes == {Resolved} \cup {Rejected(e) : e \in ThrownErrors}

\* The .then / .catch of the ANI_GENERATE_NOISY_IMAGE handler.
ExportResponse(outcome) ==
  IF outcome.ok THEN RespExport
  ELSE LET isSecurityError == MatchesSecurityPattern(outcome.error.message)
       IN  RespError(IF isSecurityError THEN MSG_SECURITY
                     ELSE IF outcome.error.message # ""
                          THEN outcome.error.message ELSE MSG_SAVE_FAILED)

\* generateNoisyDataUrl(image, settings) up to the point where it either
\* settles or leaves an onLoad listener on the image: the set of outcomes,
\* "wait" standing for the listener.
generateNoisyDataUrl(im, i) ==
  IF i = NoImage THEN {Failure(MSG_NO_SELECTED_IMAGE)}
  ELSE IF ~HasNaturalSize(im[i]) THEN {Failure(MSG_DIMENSIONS)}
  ELSE {Failure(MSG_CONTEXT)}
       \cup (IF Complete(im[i]) /\ HasNaturalSize(im[i])
             THEN FinalizeOutcomes
             ELSE {[ok |-> FALSE, error |-> [name |-> "wait", message |-> ""]]})

IsWait(outcome) == ~outcome.ok /\ outcome.error.name = "wait"

\* ------------------------------------------------------------------ inputs
\* One key of a storage change: absent, or present with its newValue
\* (undefined when the key was removed).
NoChange == [present |-> FALSE, newValue |-> Undefined]
Change(v) == [present |-> TRUE, newValue |-> v]
Changes(a, b) == [noiseType |-> a, intensity |-> b]

\* The settings objects the events of the system specifications carry:
\* supported and unsupported types, intensities below, inside and above the
\* range, values that are not numbers, absent fields, no object at all.
PayloadInputs ==
  {NoSettings,
   RawObject(Str("gaussian"), Num(300)),
   RawObject(Str("uniform"), Num(0)),
   RawObject(Str("perlin"), Str("abc"))}
GeneratePayloads == {NoSettings, RawObject(Str("gaussian"), Num(300))}
\* chrome.storage.local.get(DEFAULT_SETTINGS): both keys, stored or default.
StoredItems ==
  {RawObject(Str("uniform"), Num(DefaultIntensity)),
   RawObject(Str("gaussian"), Num(300)),
   RawObject(Str("perlin"), Num(0))}
ChangeInputs ==
  {Changes(NoChange, NoChange),
   Changes(Change(Str("gaussian")), NoChange),
   Changes(Change(Str("uniform")), Change(Num(0))),
   Changes(NoChange, Change(Num(300))),
   Changes(Change(Str("perlin")), Change(Str("abc"))),
   Changes(Change(Undefined), Change(Undefined))}
\* The (changes, areaName) pairs delivered: the change sets above for the
\* local area, and change sets of other areas.
StorageEvents ==
  {<<c, "local">> : c \in ChangeInputs}
  \cup {<<Changes(Change(Str("gaussian")), Change(Num(300))), "sync">>,
        <<Changes(Change(Str("uniform")), Change(Num(0))), "managed">>}

\* ----------------------------------------------------------- settings bridge
AppliedImages_RescanAll(im, v, sel, settings, pattern) ==
  applyNoiseAll(refreshAllOverlays(im, settings, pattern), InDocument(im),
                "selection", settings, pattern)

\* The images after applySettings: every overlay refreshed and, in the
\* selection script, applyNoise(selectedImage) when there is a selection.
AppliedImages(im, v, sel, settings, pattern) ==
  LET refreshed == refreshAllOverlays(im, settings, pattern)
  IN  IF v = "selection" /\ sel # NoImage
      THEN applyNoise(refreshed, sel, v, settings, pattern)
      ELSE refreshed

\* applySettings(settings): normalize, redraw the texture, refresh.
applySettings(raw) ==
  /\ currentSettings' = normalizeSettings(raw)
  /\ noisePattern' \in createNoisePattern(currentSettings'.noiseType)
  /\ images' = AppliedImages(images, variant, selectedImage,
                             currentSettings', noisePattern')
  /\ ListenersBounded(images')

\* The storage.onChanged listener's reading of a change set.
StorageUpdate_NoAreaCheck(cur, changes, areaName) ==
  LET acceptType == /\ changes.noiseType.present
                    /\ IsSupportedType(changes.noiseType.newValue)
      candidate == Number(changes.intensity.newValue)
      acceptIntensity == /\ changes.intensity.present
                         /\ changes.intensity.newValue.t # "undefined"
                         /\ ~candidate.nan
  IN  [updated |->
         [noiseType |-> IF acceptType THEN changes.noiseType.newValue.s
                        ELSE cur.noiseType,
          intensity |-> IF acceptIntensity
                        THEN clamp(candidate.n, MinIntensity, MaxIntensity)
                        ELSE cur.intensity],
       hasChanges |-> acceptType \/ acceptIntensity]

StorageUpdate(cur, changes, areaName) ==
  LET acceptType == /\ changes.noiseType.present
                    /\ IsSupportedType(changes.noiseType.newValue)
      candidate == Number(changes.intensity.newValue)
      acceptIntensity == /\ changes.intensity.present
                         /\ changes.intensity.newValue.t # "undefined"
                         /\ ~candidate.nan
  IN  IF areaName # "local" THEN [updated |-> cur, hasChanges |-> FALSE]
      ELSE [updated |->
              [noiseType |-> IF acceptType THEN changes.noiseType.newValue.s
                             ELSE cur.noiseType,
               intensity |-> IF acceptIntensity
                             THEN clamp(candidate.n, MinIntensity, MaxIntensity)
                             ELSE cur.intensity],
            hasChanges |-> acceptType \/ acceptIntensity]

\* ------------------------------------------------------------------ selection
notifySelectionChanged_AlwaysTrue(sel) ==
  IF hasChrome THEN <<TRUE>> ELSE <<>>

\* notifySelectionChanged(): the hasSelected values sent, none without the
\* runtime channel.
notifySelectionChanged(sel) ==
  IF hasChrome THEN <<sel # NoImage>> ELSE <<>>

selectImage_KeepPreviousClass(im, sel, image, settings, pattern) ==
  IF sel = image THEN [images |-> im, selected |-> sel, notes |-> <<>>]
  ELSE LET off == IF sel # NoImage THEN removeOverlay(im, sel) ELSE im
           on == [off EXCEPT ![image].selected = TRUE]
       IN  [images |-> applyNoise(on, image, "selection", settings, pattern),
            selected |-> image,
            notes |-> notifySelectionChanged(image)]

\* selectImage(image): [images, selected, notes] afterwards.
selectImage(im, sel, image, settings, pattern) ==
  IF sel = image THEN [images |-> im, selected |-> sel, notes |-> <<>>]
  ELSE LET off == IF sel # NoImage
                  THEN removeOverlay([im EXCEPT ![sel].selected = FALSE], sel)
                  ELSE im
           on == [off EXCEPT ![image].selected = TRUE]
       IN  [images |-> applyNoise(on, image, "selection", settings, pattern),
            selected |-> image,
            notes |-> notifySelectionChanged(image)]

clearSelection(im, sel) ==
  IF sel = NoImage THEN [images |-> im, selected |-> sel, notes |-> <<>>]
  ELSE [images |-> removeOverlay([im EXCEPT ![sel].selected = FALSE], sel),
        selected |-> NoImage,
        notes |-> notifySelectionChanged(NoImage)]

enableSelectionMode_NoListener(enabled, interceptor) ==
  IF enabled THEN [enabled |-> enabled, interceptor |-> interceptor]
  ELSE [enabled |-> TRUE, interceptor |-> interceptor]

\* enableSelectionMode / disableSelectionMode: [enabled, interceptor] after.
enableSelectionMode(enabled, interceptor) ==
  IF enabled THEN [enabled |-> enabled, interceptor |-> interceptor]
  ELSE [enabled |-> TRUE, interceptor |-> TRUE]

disableSelectionMode_KeepListener(enabled, interceptor) ==
  IF ~enabled THEN [enabled |-> enabled, interceptor |-> interceptor]
  ELSE [enabled |-> FALSE, interceptor |-> interceptor]

disableSelectionMode(enabled, interceptor) ==
  IF ~enabled THEN [enabled |-> enabled, interceptor |-> interceptor]
  ELSE [enabled |-> FALSE, interceptor |-> FALSE]

Notified(notes, before) ==
  IF Len(notes) = 0 THEN before
  ELSE IF notes[Len(notes)] THEN "true" ELSE "false"

\* One event is handled at a time; what its handler sent (responses through
\* sendResponse, runtime messages) stays in `last` until the runtime has
\* delivered it.
Idle == last = NoEvent

\* --------------------------------------------------------------------- init
Init ==
  /\ variant \in Variants
  /\ hasChrome \in BOOLEAN
  /\ variant = "content" => ~hasChrome
  /\ phase = "loading"
  /\ currentSettings = DEFAULT_SETTINGS
  /\ noisePattern \in createNoisePattern(DEFAULT_SETTINGS.noiseType)
  /\ selectedImage = NoImage
  /\ selectionModeEnabled = FALSE
  /\ clickInterceptor = FALSE
  /\ images = [i \in Imgs |-> NewImage]
  /\ pendingMutations = {}
  /\ lastNotification = "none"
  /\ last = NoEvent
  /\ fnIn = NoSettings
  /\ fnOut = normalizeSettings(NoSettings)
  /\ fnOpacity = overlayOpacityFromIntensity(normalizeSettings(NoSettings).intensity)

\* ------------------------------------------------------- the page (environment)
\* The page inserts image i itself, in load state ld.
InsertImage(i, ld) ==
  /\ Idle
  /\ ~images[i].inDoc
  /\ images' = [images EXCEPT ![i] = [@ EXCEPT !.inDoc = TRUE, !.load = ld,
                                                !.depth = 0,
                                                !.afterStart = Observing]]
  /\ pendingMutations' = IF Observing
                          THEN pendingMutations \cup {Rec("img", {i})}
                          ELSE pendingMutations
  /\ last' = NoEvent
  /\ UNCHANGED <<variant, hasChrome, phase, currentSettings, noisePattern,
                 selectedImage, selectionModeEnabled, clickInterceptor,
                 lastNotification, fnIn, fnOut, fnOpacity>>

\* The page inserts an element holding the images S, image i at depth deps[i]
\* below it and in load state lds[i].  The depth is that below a node the
\* observer is handed, so it is kept only while the observer observes.  (The
\* selection script never looks at how an image came into the document.)
InsertSubtree(S, deps, lds) ==
  /\ Idle
  /\ variant # "selection"
  /\ \A i \in S : ~images[i].inDoc
  /\ images' = [i \in Imgs |->
                  IF i \in S
                  THEN [images[i] EXCEPT !.inDoc = TRUE, !.load = lds[i],
                                         !.depth = IF Observing THEN deps[i] ELSE 0,
                                         !.afterStart = Observing]
                  ELSE images[i]]
  /\ pendingMutations' = IF Observing
                          THEN pendingMutations \cup {Rec("element", S)}
                          ELSE pendingMutations
  /\ last' = NoEvent
  /\ UNCHANGED <<variant, hasChrome, phase, currentSettings, noisePattern,
                 selectedImage, selectionModeEnabled, clickInterceptor,
                 lastNotification, fnIn, fnOut, fnOpacity>>

\* The page moves image i within the document: the image itself when it
\* has no wrapper, else the element that holds it.  The observer sees the
\* moved node as an added node again.
MoveImage(i) ==
  /\ Idle
  /\ Observing
  /\ images[i].inDoc
  /\ images[i].listeners < MaxListeners
  /\ \A rec \in pendingMutations : i \notin rec.imgs
  /\ pendingMutations' =
       pendingMutations \cup {Rec(IF images[i].wrapped THEN "element" ELSE "img", {i})}
  /\ last' = NoEvent
  /\ UNCHANGED <<variant, hasChrome, phase, currentSettings, noisePattern,
                 selectedImage, selectionModeEnabled, clickInterceptor, images,
                 lastNotification, fnIn, fnOut, fnOpacity>>

\* The dimensions of a loading image become known.
ImageProgress(i) ==
  /\ Idle
  /\ images[i].inDoc /\ images[i].load = "pending"
  /\ images' = [images EXCEPT ![i].load = "partial"]
  /\ last' = NoEvent
  /\ UNCHANGED <<variant, hasChrome, phase, currentSettings, noisePattern,
                 selectedImage, selectionModeEnabled, clickInterceptor,
                 pendingMutations, lastNotification, fnIn, fnOut, fnOpacity>>

\* The load of an image fails: an error event, never a load event.
ImageError(i) ==
  /\ Idle
  /\ images[i].inDoc /\ images[i].load \in {"pending", "partial"}
  /\ images' = [images EXCEPT ![i].load = "broken"]
  /\ last' = NoEvent
  /\ UNCHANGED <<variant, hasChrome, phase, currentSettings, noisePattern,
                 selectedImage, selectionModeEnabled, clickInterceptor,
                 pendingMutations, lastNotification, fnIn, fnOut, fnOpacity>>

\* The load event of image i: its doApply listeners ({ once: true }) and its
\* export onLoad listeners (each removes itself) run; each export settles
\* and answers its request.
ImageLoad(i) ==
  /\ Idle
  /\ images[i].inDoc /\ images[i].load \in {"pending", "partial"}
  /\ \E outs \in [1..images[i].waiters -> FinalizeOutcomes] :
       LET loaded == [images EXCEPT ![i].load = "loaded"]
           ran == runListeners(loaded, i, images[i].listeners, variant,
                               currentSettings, noisePattern)
           after == [ran EXCEPT ![i].listeners = 0, ![i].waiters = 0]
       IN  /\ images' = after
           /\ pendingMutations' = IF Observing
                                   THEN pendingMutations \cup MutationsOf(images, after)
                                   ELSE pendingMutations
           /\ last' = IF images[i].waiters = 0 THEN NoEvent
                      ELSE Event("load",
                                 [k \in 1..images[i].waiters |->
                                    ExportResponse(outs[k])],
                                 <<>>)
  /\ UNCHANGED <<variant, hasChrome, phase, currentSettings, noisePattern,
                 selectedImage, selectionModeEnabled, clickInterceptor,
                 lastNotification, fnIn, fnOut, fnOpacity>>

\* ------------------------------------------------------------------ start
\* start(): content.js scans and observes at once; the other two first load
\* the stored settings `items` (the defaults without chrome.storage) and
\* apply them, then scan and observe (base) and listen for storage changes.
Start(items) ==
  /\ Idle
  /\ phase = "loading"
  /\ phase' = "started"
  /\ hasChrome \/ items = AsRaw(DEFAULT_SETTINGS)
  /\ LET settings == IF variant = "content" THEN currentSettings
                       ELSE normalizeSettings(items)
       IN  \E pattern \in (IF variant = "content" THEN {noisePattern}
                            ELSE createNoisePattern(settings.noiseType)) :
             LET applied == IF variant = "content" THEN images
                            ELSE AppliedImages(images, variant, selectedImage,
                                               settings, pattern)
                 scanned == IF variant = "selection" THEN applied
                            ELSE applyNoiseAll(applied, InDocument(applied),
                                               variant, settings, pattern)
             IN  /\ currentSettings' = settings
                 /\ noisePattern' = pattern
                 /\ images' = scanned
                 /\ ListenersBounded(scanned)
  /\ last' = NoEvent
  /\ UNCHANGED <<variant, hasChrome, selectedImage, selectionModeEnabled,
                 clickInterceptor, pendingMutations, lastNotification, fnIn, fnOut, fnOpacity>>

\* The MutationObserver callback over every record queued since the last one.
ObserverCallback ==
  /\ Idle
  /\ Observing
  /\ pendingMutations # {}
  /\ LET targets == UNION {ObservedImages(rec) : rec \in pendingMutations}
         after == applyNoiseAll(images, targets, variant, currentSettings,
                                noisePattern)
     IN  /\ images' = after
         /\ ListenersBounded(after)
         /\ pendingMutations' = MutationsOf(images, after)
  /\ last' = NoEvent
  /\ UNCHANGED <<variant, hasChrome, phase, currentSettings, noisePattern,
                 selectedImage, selectionModeEnabled, clickInterceptor,
                 lastNotification, fnIn, fnOut, fnOpacity>>

\* chrome.storage.onChanged delivers (changes, areaName).
StorageChanged(changes, areaName) ==
  /\ Idle
  /\ variant \in {"base", "selection"}
  /\ hasChrome
  /\ phase = "started"
  /\ LET u == StorageUpdate(currentSettings, changes, areaName)
     IN  IF u.hasChanges
         THEN applySettings(AsRaw(u.updated))
         ELSE UNCHANGED <<currentSettings, noisePattern, images>>
  /\ last' = NoEvent
  /\ UNCHANGED <<variant, hasChrome, phase, selectedImage, selectionModeEnabled,
                 clickInterceptor, pendingMutations, lastNotification, fnIn, fnOut, fnOpacity>>

\* ------------------------------------------------------------- messages
Listening == variant = "selection" /\ hasChrome

MsgStartSelection ==
  /\ Idle
  /\ Listening
  /\ LET m == enableSelectionMode(selectionModeEnabled, clickInterceptor)
     IN  /\ selectionModeEnabled' = m.enabled
         /\ clickInterceptor' = m.interceptor
  /\ last' = Event("ANI_START_SELECTION", <<RespOk>>, <<>>)
  /\ UNCHANGED <<variant, hasChrome, phase, currentSettings, noisePattern,
                 selectedImage, images, pendingMutations, lastNotification,
                 fnIn, fnOut, fnOpacity>>

MsgClearSelection ==
  /\ Idle
  /\ Listening
  /\ LET m == disableSelectionMode(selectionModeEnabled, clickInterceptor)
         c == clearSelection(images, selectedImage)
     IN  /\ selectionModeEnabled' = m.enabled
         /\ clickInterceptor' = m.interceptor
         /\ images' = c.images
         /\ selectedImage' = c.selected
         /\ lastNotification' = Notified(c.notes, lastNotification)
         /\ last' = Event("ANI_CLEAR_SELECTION", <<RespOk>>, c.notes)
  /\ UNCHANGED <<variant, hasChrome, phase, currentSettings, noisePattern,
                 pendingMutations, fnIn, fnOut, fnOpacity>>

MsgGetSelectionState ==
  /\ Idle
  /\ Listening
  /\ last' = Event("ANI_GET_SELECTION_STATE",
                    <<RespState(selectedImage # NoImage)>>, <<>>)
  /\ UNCHANGED <<variant, hasChrome, phase, currentSettings, noisePattern,
                 selectedImage, selectionModeEnabled, clickInterceptor, images,
                 pendingMutations, lastNotification, fnIn, fnOut, fnOpacity>>

HasSelection_Always(sel) == TRUE

\* if (!selectedImage) of handleApplyNoiseRequest.
HasSelection(sel) == sel # NoImage

\* handleApplyNoiseRequest(message.payload ?? {}, sendResponse)
MsgApplyNoise(payload) ==
  /\ Idle
  /\ Listening
  /\ IF ~HasSelection(selectedImage)
     THEN /\ last' = Event("ANI_APPLY_NOISE", <<RespError(MSG_SELECT_FIRST)>>, <<>>)
          /\ UNCHANGED <<currentSettings, noisePattern, images>>
     ELSE /\ applySettings(IF payload.isObj THEN payload
                           ELSE RawObject(Undefined, Undefined))
          /\ last' = [Event("ANI_APPLY_NOISE", <<RespOk>>, <<>>)
                         EXCEPT !.feedback = IF hasChrome THEN <<TRUE>> ELSE <<>>]
  /\ UNCHANGED <<variant, hasChrome, phase, selectedImage, selectionModeEnabled,
                 clickInterceptor, pendingMutations, lastNotification, fnIn, fnOut, fnOpacity>>

\* const settings = normalizeSettings(message.payload ?? currentSettings):
\* the settings the export draws with.
ExportSettings(payload, cur) ==
  normalizeSettings(IF payload.isObj THEN payload ELSE AsRaw(cur))

SettingsAfterGenerate_ApplyPayload(cur, settings) == settings

\* `settings` is local to the handler: currentSettings stays what it was.
SettingsAfterGenerate(cur, settings) == cur

\* ANI_GENERATE_NOISY_IMAGE: answered now when the export settles at once,
\* later (ImageLoad) when it waits for the image's load event.
MsgGenerate(payload) ==
  /\ Idle
  /\ Listening
  /\ currentSettings' =
       IF selectedImage = NoImage THEN currentSettings
       ELSE SettingsAfterGenerate(currentSettings,
                                  ExportSettings(payload, currentSettings))
  /\ IF selectedImage = NoImage
     THEN /\ last' = Event("ANI_GENERATE_NOISY_IMAGE",
                           <<RespError(MSG_SELECT_FIRST)>>, <<>>)
          /\ UNCHANGED images
     ELSE \E outcome \in generateNoisyDataUrl(images, selectedImage) :
            IF IsWait(outcome)
            THEN /\ images[selectedImage].waiters < MaxExports
                 /\ images' = [images EXCEPT ![selectedImage].waiters = @ + 1]
                 /\ last' = Event("ANI_GENERATE_NOISY_IMAGE", <<>>, <<>>)
            ELSE /\ UNCHANGED images
                 /\ last' = Event("ANI_GENERATE_NOISY_IMAGE",
                                  <<ExportResponse(outcome)>>, <<>>)
  /\ UNCHANGED <<variant, hasChrome, phase, noisePattern,
                 selectedImage, selectionModeEnabled, clickInterceptor,
                 pendingMutations, lastNotification, fnIn, fnOut, fnOpacity>>

\* A message of another type, or without one: no answer, nothing done.
MsgOther ==
  /\ Idle
  /\ Listening
  /\ last' = NoEvent
  /\ UNCHANGED <<variant, hasChrome, phase, currentSettings, noisePattern,
                 selectedImage, selectionModeEnabled, clickInterceptor, images,
                 pendingMutations, lastNotification, fnIn, fnOut, fnOpacity>>

\* A click in the page on image `target`, or on another element (NoImage).
\* selectionClickHandler runs when it is registered (capture phase).
Click(target) ==
  /\ Idle
  /\ variant = "selection"
  /\ IF target = NoImage THEN TRUE ELSE images[target].inDoc
  /\ IF clickInterceptor /\ target # NoImage
     THEN LET m == disableSelectionMode(selectionModeEnabled, clickInterceptor)
              c == selectImage(images, selectedImage, target, currentSettings,
                               noisePattern)
          IN  /\ selectionModeEnabled' = m.enabled
              /\ clickInterceptor' = m.interceptor
              /\ images' = c.images
              /\ ListenersBounded(c.images)
              /\ selectedImage' = c.selected
              /\ lastNotification' = Notified(c.notes, lastNotification)
              /\ last' = Event("click", <<>>, c.notes)
     ELSE /\ last' = Event("click", <<>>, <<>>)
          /\ UNCHANGED <<selectionModeEnabled, clickInterceptor, images,
                         selectedImage, lastNotification>>
  /\ UNCHANGED <<variant, hasChrome, phase, currentSettings, noisePattern,
                 pendingMutations, fnIn, fnOut, fnOpacity>>

\* The runtime delivers what the last handler sent.
Deliver ==
  /\ ~Idle
  /\ last' = NoEvent
  /\ UNCHANGED <<variant, hasChrome, phase, currentSettings, noisePattern,
                 selectedImage, selectionModeEnabled, clickInterceptor, images,
                 pendingMutations, lastNotification, fnIn, fnOut, fnOpacity>>

\* ------------------------------------------------------------------- next
\* The page, and the events every script sees.
NextPage ==
  \/ \E i \in Imgs, ld \in LoadStates : InsertImage(i, ld)
  \/ \E i \in Imgs : ImageProgress(i)
  \/ \E i \in Imgs : ImageError(i)
  \/ \E i \in Imgs : ImageLoad(i)
  \/ \E items \in StoredItems : Start(items)
  \/ \E ev \in StorageEvents : StorageChanged(ev[1], ev[2])

\* The overlay scripts (content.js and the base script).
NextOverlay ==
  \/ NextPage
  \/ \E S \in SUBSET Imgs :
       \E deps \in [S -> 1..MaxDepth], lds \in [S -> LoadStates] :
         InsertSubtree(S, deps, lds)
  \/ \E i \in Imgs : MoveImage(i)
  \/ ObserverCallback

\* The selection script.
NextSelection ==
  \/ NextPage
  \/ MsgStartSelection
  \/ MsgClearSelection
  \/ MsgGetSelectionState
  \/ \E payload \in PayloadInputs : MsgApplyNoise(payload)
  \/ \E payload \in GeneratePayloads : MsgGenerate(payload)
  \/ MsgOther
  \/ \E target \in Imgs \cup {NoImage} : Click(target)
  \/ Deliver

Next == NextOverlay \/ NextSelection

Spec == Init /\ [][Next]_vars

\* The script is fixed at Init, so the behaviours of Spec are those of the
\* two specifications below, put side by side.
InitOverlay == Init /\ variant \in {"content", "base"}
SpecOverlay == InitOverlay /\ [][NextOverlay]_vars

InitSelection == Init /\ variant = "selection"
SpecSelection == InitSelection /\ [][NextSelection]_vars

\* The overlay scripts in a page without chrome.storage (the base script
\* then starts from DEFAULT_SETTINGS and no storage event arrives), with the
\* MutationObserver delivering the records it has queued.
InitObserve == InitOverlay /\ ~hasChrome
NextObserve ==
  \/ \E i \in Imgs, ld \in LoadStates : InsertImage(i, ld)
  \/ \E S \in SUBSET Imgs :
       \E deps \in [S -> 1..MaxDepth], lds \in [S -> LoadStates] :
         InsertSubtree(S, deps, lds)
  \/ \E i \in Imgs : ImageProgress(i)
  \/ \E i \in Imgs : ImageError(i)
  \/ \E i \in Imgs : ImageLoad(i)
  \/ \E items \in StoredItems : Start(items)
  \/ ObserverCallback
FairOverlay == InitObserve /\ [][NextObserve]_vars /\ WF_vars(ObserverCallback)

\* ------------------------------------------------- normalizeSettings alone
IntensityValues ==
  {Undefined, Null, Bool(TRUE), Bool(FALSE), NaNValue, EmptyArray, Object,
   Num(0 - 20), Num(0), Num(1), Num(DefaultIntensity), Num(199), Num(200),
   Num(201), Num(300),
   Str(""), Str(" "), Str("0.5"), Str("50"), Str("250"), Str("abc")}
NoiseTypeValues ==
  {Undefined, Null, Num(0), Object, Str(""), Str("uniform"), Str("gaussian"),
   Str("Uniform"), Str("perlin")}
RawSettings ==
  {NoSettings} \cup {RawObject(nt, it) : nt \in NoiseTypeValues, it \in IntensityValues}

CallNormalize(raw) ==
  /\ fnIn' = raw
  /\ fnOut' = normalizeSettings(raw)
  /\ fnOpacity' = overlayOpacityFromIntensity(fnOut'.intensity)
  /\ UNCHANGED sysVars

InitFn == Init /\ variant = "base" /\ hasChrome /\ ~noisePattern.empty
NextFn == \E raw \in RawSettings : CallNormalize(raw)
SpecFn == InitFn /\ [][NextFn]_vars

\* ===================================================================== claims
OverlayCount(i) == Len(images[i].overlays)

\* C1: every image inserted while the observer observes, directly or nested
\* at any depth in an inserted subtree, eventually has exactly one overlay in
\* its wrapper once its load has completed.
C1_InsertedImageGetsOneOverlay ==
  \A i \in Imgs :
    (images[i].inDoc /\ images[i].afterStart /\ images[i].load = "loaded")
      ~> (images[i].wrapped /\ OverlayCount(i) = 1)

\* C1 witness: an image inserted after start at the greatest depth, loaded,
\* wrapped and carrying its one overlay.
C1_Witness ==
  \E i \in Imgs :
    /\ images[i].afterStart /\ images[i].depth = MaxDepth
    /\ images[i].load = "loaded" /\ images[i].wrapped /\ OverlayCount(i) = 1

\* C2: applyNoise (overlay scripts) is idempotent.  No image ever has more
\* than one overlay and a processed image has exactly one; the load event of
\* an image on which applyNoise was called once or several times before the
\* load leaves exactly one overlay; and no step changes the wrapper, the
\* number of overlays, the marker or the listeners of an image that is
\* already marked processed.
C2_ApplyNoiseIdempotent ==
  /\ [](\A i \in Imgs :
          /\ OverlayCount(i) <= 1
          /\ images[i].applied => images[i].wrapped /\ OverlayCount(i) = 1)
  /\ [][\A i \in Imgs :
          /\ (images[i].listeners >= 1 /\ images[i].load # "loaded"
                 /\ images'[i].load = "loaded")
               => (images'[i].applied /\ Len(images'[i].overlays) = 1)
          /\ images[i].applied
               => /\ images'[i].applied /\ images'[i].wrapped
                  /\ Len(images'[i].overlays) = 1
                  /\ images'[i].listeners = images[i].listeners]_vars

\* C2 witness: an image inserted under the observer is wrapped, processed,
\* has one overlay, and no record is pending: applyNoise ran on it when it
\* was inserted (or its load listeners ran) and again for the records of its
\* wrapper.
C2_Witness ==
  \E i \in Imgs :
    /\ images[i].afterStart /\ images[i].applied /\ images[i].wrapped
    /\ OverlayCount(i) = 1 /\ pendingMutations = {}

\* ---------------------------------------------------------------------- C3
\* An intensity that is no number: not of type number, or text that is not a
\* numeric literal.
NonNumericIntensity(v) ==
  \/ v.t \in {"undefined", "null", "boolean", "array", "object"}
  \/ v.t = "string" /\ v.s \in {"", "abc"}

\* C3: for every non-numeric intensity handed to normalizeSettings (null, the
\* empty string, booleans, arrays, objects, undefined, text that is no
\* number), the returned intensity is the default 20.
C3_NonNumericIntensityIsDefault ==
  NonNumericIntensity(fnIn.intensity) => fnOut.intensity = DefaultIntensity

\* ---------------------------------------------------------------------- C4
\* The stored value of a numeric intensity n (half units).
StoredIntensity(n) ==
  IF n < MinIntensity THEN MinIntensity
  ELSE IF n > MaxIntensity THEN MaxIntensity ELSE n
IsNumeric(v) == v.t = "number" /\ v.s # "NaN"

\* C4: in every reachable state currentSettings.noiseType is uniform or
\* gaussian and currentSettings.intensity lies in [0.5, 100]; a startup
\* load, an accepted storage change and an APPLY_NOISE message store a
\* numeric intensity below 0.5 as 0.5, one above 100 as 100, and one inside
\* the range as it is.
C4_SettingsAlwaysNormal ==
  /\ [](/\ currentSettings.noiseType \in {"uniform", "gaussian"}
        /\ MinIntensity <= currentSettings.intensity
        /\ currentSettings.intensity <= MaxIntensity)
  /\ [][/\ \A items \in StoredItems :
             (Start(items) /\ IsNumeric(items.intensity))
               => currentSettings'.intensity = StoredIntensity(items.intensity.n)
        /\ \A payload \in PayloadInputs :
             (MsgApplyNoise(payload) /\ selectedImage # NoImage
                /\ payload.isObj /\ IsNumeric(payload.intensity))
               => currentSettings'.intensity = StoredIntensity(payload.intensity.n)
        /\ \A ev \in StorageEvents :
             (StorageChanged(ev[1], ev[2]) /\ ev[2] = "local"
                /\ ev[1].intensity.present /\ IsNumeric(ev[1].intensity.newValue))
               => currentSettings'.intensity
                    = StoredIntensity(ev[1].intensity.newValue.n)]_vars

\* C4 witness: an APPLY_NOISE message with intensity 150 was answered ok and
\* the settings hold gaussian with the intensity clamped to 100.
C4_Witness ==
  /\ last.op = "ANI_APPLY_NOISE" /\ last.resp = <<RespOk>>
  /\ currentSettings = [noiseType |-> "gaussian", intensity |-> MaxIntensity]

\* ---------------------------------------------------------------------- C5
\* A recognized field of the change set ends up different from what
\* currentSettings holds.
FieldDiffers(cur, changes) ==
  \/ /\ changes.noiseType.present
     /\ IsSupportedType(changes.noiseType.newValue)
     /\ changes.noiseType.newValue.s # cur.noiseType
  \/ /\ changes.intensity.present
     /\ changes.intensity.newValue.t # "undefined"
     /\ ~Number(changes.intensity.newValue).nan
     /\ StoredIntensity(Number(changes.intensity.newValue).n) # cur.intensity
\* A recognized field is present with a value the listener accepts.
FieldAccepted(changes) ==
  \/ changes.noiseType.present /\ IsSupportedType(changes.noiseType.newValue)
  \/ /\ changes.intensity.present
     /\ changes.intensity.newValue.t # "undefined"
     /\ ~Number(changes.intensity.newValue).nan
OverlaysCarry(im, settings, pattern) ==
  \A i \in Imgs : \A k \in 1..Len(im[i].overlays) :
    /\ im[i].overlays[k].backgroundImage = pattern
    /\ im[i].overlays[k].opacity = StoredIntensity(settings.intensity)

\* C5 as stated: a storage change leaves settings, texture and overlays
\* untouched unless its area is local and a recognized field ends up with a
\* value different from the one currentSettings holds.
C5_RecomputeOnlyOnDifferentValue ==
  [][\A ev \in StorageEvents :
       (StorageChanged(ev[1], ev[2])
          /\ ~(ev[2] = "local" /\ FieldDiffers(currentSettings, ev[1])))
         => UNCHANGED <<currentSettings, noisePattern, images>>]_vars

\* C5 amended: a storage change leaves settings, texture and overlays
\* untouched unless its area is local and a recognized field is present with
\* an accepted value (a supported noiseType, or a defined intensity that
\* converts to a number), equal to the current one or not; such a change
\* stores the field, redraws the texture for the stored type and gives every
\* overlay the new texture and opacity.
C5_RecomputeOnlyOnAcceptedLocalChange ==
  [][\A ev \in StorageEvents :
       StorageChanged(ev[1], ev[2])
         => IF ev[2] = "local" /\ FieldAccepted(ev[1])
            THEN /\ noisePattern' \in createNoisePattern(currentSettings'.noiseType)
                 /\ OverlaysCarry(images', currentSettings', noisePattern')
                 /\ ~FieldDiffers(currentSettings', ev[1])
            ELSE UNCHANGED <<currentSettings, noisePattern, images>>]_vars

\* C5 witness: the base script holds gaussian at the default intensity, which
\* only a storage change of noiseType alone produces, and an overlay carries
\* the gaussian texture drawn for it.
C5_Witness ==
  /\ variant = "base"
  /\ currentSettings = [noiseType |-> "gaussian", intensity |-> DefaultIntensity]
  /\ ~noisePattern.empty /\ noisePattern.type = "gaussian"
  /\ \E i \in Imgs :
       /\ OverlayCount(i) = 1
       /\ images[i].overlays[1] = applyOverlaySettings(currentSettings, noisePattern)

\* ---------------------------------------------------------------------- C6
SyncMessages ==
  {"ANI_START_SELECTION", "ANI_CLEAR_SELECTION", "ANI_GET_SELECTION_STATE",
   "ANI_APPLY_NOISE"}

\* C6: every handled control message is answered exactly once: the
\* synchronous ones by their handler, GENERATE_NOISY_IMAGE by its handler or,
\* when the export waits for the image, once the export settles; and an
\* export that waits is always one that can still settle, also when the image
\* never loads.
C6_EveryMessageAnsweredOnce ==
  /\ last.op \in SyncMessages => Len(last.resp) = 1
  /\ last.op = "ANI_GENERATE_NOISY_IMAGE"
       => \/ Len(last.resp) = 1
          \/ /\ Len(last.resp) = 0
             /\ selectedImage # NoImage /\ images[selectedImage].waiters = 1
  /\ last.op = "load" => Len(last.resp) = 1
  /\ \A i \in Imgs : images[i].waiters > 0 => images[i].load \in {"pending", "partial"}

\* ---------------------------------------------------------------------- C7
\* C7: once a second image has been selected after a first, the document
\* holds exactly one overlay, on the selected image (as soon as it is
\* loaded), and every other image has no overlay, no processed marker and no
\* selected class, whatever the load states were at the two selections.
C7_OnlySelectedImageHasOverlay ==
  selectedImage # NoImage =>
    /\ \A i \in Imgs \ {selectedImage} :
         /\ OverlayCount(i) = 0
         /\ ~images[i].applied
         /\ ~images[i].selected
    /\ images[selectedImage].selected
    /\ OverlayCount(selectedImage) <= 1
    /\ images[selectedImage].load = "loaded" => OverlayCount(selectedImage) = 1

\* ---------------------------------------------------------------------- C8
\* C8: the click interceptor is registered exactly while selection mode is
\* on; with the mode on, a click on an image turns the mode off, removes the
\* interceptor, makes the image the selected one and takes the selected class
\* and the overlay off the image selected before; a click on another element,
\* and any click while the mode is off, changes neither mode nor selection.
C8_ClickSelectsOnlyInSelectionMode ==
  /\ [](clickInterceptor <=> selectionModeEnabled)
  /\ [][\A target \in Imgs \cup {NoImage} :
          Click(target) =>
            IF selectionModeEnabled /\ target # NoImage
            THEN /\ ~selectionModeEnabled' /\ ~clickInterceptor'
                 /\ selectedImage' = target
                 /\ images'[target].selected
                 /\ selectedImage \notin {NoImage, target}
                      => /\ ~images'[selectedImage].selected
                         /\ Len(images'[selectedImage].overlays) = 0
                         /\ ~images'[selectedImage].applied
            ELSE UNCHANGED <<selectionModeEnabled, clickInterceptor,
                             selectedImage, images>>]_vars

\* C8 witness: a click has just made image 2 the selected one with the mode
\* turned off, and image 1, which keeps the wrapper of an earlier selection,
\* has neither selected class nor overlay.
C8_Witness ==
  /\ last.op = "click" /\ Len(last.notes) = 1
  /\ selectedImage = 2 /\ images[2].selected
  /\ ~selectionModeEnabled /\ ~clickInterceptor
  /\ images[1].wrapped /\ ~images[1].selected /\ OverlayCount(1) = 0

\* ---------------------------------------------------------------------- C9
\* C9: a GENERATE_NOISY_IMAGE request, answered with success or failure or
\* left waiting for the image, and the later settling of a waiting export,
\* leave the selection, the selection mode, currentSettings and the texture
\* as they were; the request itself leaves every overlay, wrapper, marker
\* and selected class as it was.
C9_GenerateLeavesStateUnchanged ==
  [][/\ \A payload \in GeneratePayloads :
          MsgGenerate(payload) =>
            /\ UNCHANGED <<selectedImage, selectionModeEnabled, clickInterceptor,
                           currentSettings, noisePattern>>
            /\ \A i \in Imgs :
                 /\ images'[i].overlays = images[i].overlays
                 /\ images'[i].wrapped = images[i].wrapped
                 /\ images'[i].applied = images[i].applied
                 /\ images'[i].selected = images[i].selected
     /\ last'.op = "load" =>
          UNCHANGED <<selectedImage, selectionModeEnabled, clickInterceptor,
                      currentSettings, noisePattern>>]_vars

\* C9 witness: an export with a payload was just answered with a failure
\* while an image is selected, carries its overlay, and the settings are
\* still the defaults, not the payload's.
C9_Witness ==
  /\ last.op = "ANI_GENERATE_NOISY_IMAGE"
  /\ Len(last.resp) = 1 /\ ~last.resp[1].ok
  /\ selectedImage # NoImage /\ images[selectedImage].selected
  /\ OverlayCount(selectedImage) = 1
  /\ currentSettings = DEFAULT_SETTINGS

\* --------------------------------------------------------------------- C10
ExportMessages ==
  {MSG_SELECT_FIRST, MSG_DIMENSIONS, MSG_CONTEXT, MSG_SECURITY, MSG_SAVE_FAILED}

\* C10: every export failure is answered ok:false with the message of its
\* cause: no selection, no natural width or height (the dimensions message,
\* not the generic one), no drawing surface, and a blocked cross-origin pixel
\* read, which is always answered with the security-restriction message and
\* never with the text of the underlying error.
C10_ExportFailuresDistinguished ==
  /\ Cardinality(ExportMessages) = 5
  /\ last.op \in {"ANI_GENERATE_NOISY_IMAGE", "load"} =>
       \A k \in 1..Len(last.resp) :
         /\ last.resp[k].kind \in {"export", "error"}
         /\ last.resp[k].kind = "error" =>
              /\ ~last.resp[k].ok
              /\ last.resp[k].error \notin {e.message : e \in SecurityErrors}
  /\ last.op = "ANI_GENERATE_NOISY_IMAGE" =>
       /\ selectedImage = NoImage => last.resp = <<RespError(MSG_SELECT_FIRST)>>
       /\ (selectedImage # NoImage /\ ~HasNaturalSize(images[selectedImage]))
            => last.resp = <<RespError(MSG_DIMENSIONS)>>

\* --------------------------------------------------------------------- C11
\* C11: the overlay opacity derived from a normalized intensity lies in
\* [0.005, 1] and never decreases when the intensity grows; intensity 20
\* gives 0.2, intensity 0.5 gives 0.005, and an input of 150 is normalized to
\* 100 and gives 1.
C11_OpacityFromIntensity ==
  /\ [](/\ MinOpacity <= fnOpacity /\ fnOpacity <= MaxOpacity
        /\ fnIn.intensity = Num(DefaultIntensity) => fnOpacity = 40
        /\ fnIn.intensity = Num(1) => fnOpacity = 1
        /\ fnIn.intensity = Num(300)
             => fnOut.intensity = MaxIntensity /\ fnOpacity = 200)
  /\ [][/\ fnOut.intensity <= fnOut'.intensity => fnOpacity <= fnOpacity'
        /\ fnOut.intensity >= fnOut'.intensity => fnOpacity >= fnOpacity']_vars

\* C11 witness: normalizeSettings was handed the intensity 150, stored 100,
\* and the opacity derived from it is 1.
C11_Witness ==
  /\ fnIn.intensity = Num(300)
  /\ fnOut.intensity = MaxIntensity
  /\ fnOpacity = MaxOpacity

\* --------------------------------------------------------------------- C12
\* C12: for every noiseType handed to normalizeSettings that is not uniform
\* or gaussian (another name, another spelling, a value that is no string,
\* an absent field, no settings object at all) the returned noiseType is the
\* default uniform; a supported one is returned as it is.
C12_UnsupportedTypeIsDefault ==
  /\ ~(fnIn.isObj /\ fnIn.noiseType.t = "string"
         /\ fnIn.noiseType.s \in {"uniform", "gaussian"})
       => fnOut.noiseType = "uniform"
  /\ (fnIn.isObj /\ fnIn.noiseType = Str("gaussian")) => fnOut.noiseType = "gaussian"

\* C12 witness: normalizeSettings was handed the unsupported type perlin and
\* returned uniform.
C12_Witness ==
  /\ fnIn.isObj /\ fnIn.noiseType = Str("perlin")
  /\ fnOut.noiseType = "uniform"

\* --------------------------------------------------------------------- C13
\* C13: in the selection script an image that is not the selected image has
\* no overlay and no processed marker, in every reachable state: a deselected
\* image stays torn down, also when a load listener registered while it was
\* selected runs afterwards.
C13_DeselectedStaysTornDown ==
  variant = "selection" =>
    \A i \in Imgs :
      i # selectedImage => OverlayCount(i) = 0 /\ ~images[i].applied

\* --------------------------------------------------------------------- C14
\* The states of the selection script.
IdleState == selectedImage = NoImage /\ ~selectionModeEnabled /\ ~clickInterceptor
SelectingState == selectionModeEnabled /\ clickInterceptor
SelectedState == selectedImage # NoImage /\ ~selectionModeEnabled /\ ~clickInterceptor

\* C14 as stated: the selection script is always idle (no image selected,
\* selection mode off) or selecting (click capture active); selection mode is
\* never off while an image is selected.
C14_IdleOrSelecting == IdleState \/ SelectingState

\* C14 amended: the selection script is always in one of three states, idle
\* (no selection, mode off), selecting (mode on, click capture active, with
\* or without an image selected earlier) or selected (an image selected, mode
\* off); click capture is active exactly in selecting; START_SELECTION leads
\* to selecting and keeps the selection, CLEAR_SELECTION leads to idle, and an
\* image becomes the selected one only by a step from selecting to selected.
C14_IdleSelectingOrSelected ==
  /\ [](IdleState \/ SelectingState \/ SelectedState)
  /\ [](clickInterceptor <=> selectionModeEnabled)
  /\ [][/\ MsgStartSelection => (SelectingState' /\ UNCHANGED selectedImage)
        /\ MsgClearSelection => IdleState'
        /\ (selectedImage' # selectedImage /\ selectedImage' # NoImage)
             => (SelectingState /\ SelectedState')]_vars

\* C14 witness: a click has just selected an image and the mode is off: the
\* state selected.
C14_Witness ==
  /\ last.op = "click" /\ SelectedState
  /\ images[selectedImage].selected

\* --------------------------------------------------------------------- C15
\* C15: in the scripts that have settings (base and selection), once
\* applySettings has run and until the next settings change, every overlay
\* of the document, those created later by deferred load listeners included,
\* has the opacity derived from currentSettings.intensity and the current
\* noise texture as its background.  (It holds from the first state on:
\* overlays created before the stored settings arrive carry the defaults the
\* script starts with.)
C15_OverlaysCarryCurrentSettings ==
  variant # "content" => OverlaysCarry(images, currentSettings, noisePattern)

\* C15 witness: applySettings has put gaussian at intensity 100 in effect
\* and an image has an overlay, which carries opacity 1 and the gaussian
\* texture in effect.
C15_Witness ==
  /\ variant # "content" /\ phase = "started"
  /\ currentSettings = [noiseType |-> "gaussian", intensity |-> MaxIntensity]
  /\ noisePattern.type = "gaussian"
  /\ \E i \in Imgs :
       /\ OverlayCount(i) = 1
       /\ images[i].overlays[1].opacity = MaxOpacity
       /\ images[i].overlays[1].backgroundImage = noisePattern

\* --------------------------------------------------------------------- C16
\* A step that runs applySettings and nothing else that touches the page: a
\* storage change, an APPLY_NOISE message, the selection script's startup
\* load.  (The base script's start() also scans the document.)
SettingsChangeStep ==
  \/ \E ev \in StorageEvents : StorageChanged(ev[1], ev[2])
  \/ \E payload \in PayloadInputs : MsgApplyNoise(payload)
  \/ variant = "selection" /\ \E items \in StoredItems : Start(items)
SameStructure ==
  \A i \in Imgs :
    /\ images'[i].wrapped = images[i].wrapped
    /\ Len(images'[i].overlays) = Len(images[i].overlays)
    /\ images'[i].applied = images[i].applied
    /\ images'[i].inDoc = images[i].inDoc
    /\ images'[i].selected = images[i].selected

\* C16: a settings change (applySettings, in the base and the selection
\* script) creates and removes no wrapper and no overlay and sets and clears
\* no processed marker: only the style of the existing overlays changes.
C16_SettingsChangeKeepsStructure ==
  [][SameStructure \/ ~SettingsChangeStep]_vars

\* C16 witness: an APPLY_NOISE message has just restyled the overlay of the
\* selected image to opacity 1 while another loaded image of the document
\* still has neither wrapper nor overlay nor marker.
C16_Witness ==
  /\ last.op = "ANI_APPLY_NOISE" /\ last.resp = <<RespOk>>
  /\ selectedImage # NoImage /\ OverlayCount(selectedImage) = 1
  /\ images[selectedImage].overlays[1].opacity = MaxOpacity
  /\ \E i \in Imgs \ {selectedImage} :
       /\ images[i].inDoc /\ images[i].load = "loaded"
       /\ ~images[i].wrapped /\ OverlayCount(i) = 0 /\ ~images[i].applied

\* --------------------------------------------------------------------- C17
\* C17: in the overlay scripts no step gives an image a wrapper, an overlay
\* or the processed marker unless the image is, at that moment, complete
\* with a natural width; an image that has not finished loading has none of
\* the three; and an image that carries the marker has a wrapper holding an
\* overlay.
C17_NoMutationBeforeLoad ==
  /\ [](\A i \in Imgs :
          /\ ~(Complete(images[i]) /\ HasNaturalSize(images[i]))
               => (~images[i].wrapped /\ OverlayCount(i) = 0 /\ ~images[i].applied)
          /\ images[i].applied => (images[i].wrapped /\ OverlayCount(i) >= 1))
  /\ [][\A i \in Imgs :
          (\/ images'[i].wrapped # images[i].wrapped
           \/ images'[i].overlays # images[i].overlays
           \/ images'[i].applied # images[i].applied)
            => /\ Complete(images'[i]) /\ HasNaturalSize(images'[i])
               /\ images'[i].applied => Len(images'[i].overlays) >= 1]_vars

\* C17 witness: applyNoise ran on an image that is still loading: its load
\* listener is registered and the image has no wrapper, overlay or marker.
C17_Witness ==
  \E i \in Imgs :
    /\ images[i].inDoc /\ images[i].load \in {"pending", "partial"}
    /\ images[i].listeners >= 1
    /\ ~images[i].wrapped /\ OverlayCount(i) = 0 /\ ~images[i].applied

\* --------------------------------------------------------------------- C18
\* The images that carry the selected-image class.
SelectedClassImages == {i \in Imgs : images[i].selected}

\* C18: in the selection script at most one image is selected, and the
\* images carrying the selected-image class are exactly the selected image,
\* or none when there is no selection.
C18_SelectedClassIsSelectedImage ==
  variant = "selection" =>
    /\ selectedImage \in Imgs \cup {NoImage}
    /\ Cardinality(SelectedClassImages) <= 1
    /\ SelectedClassImages = IF selectedImage = NoImage THEN {} ELSE {selectedImage}

\* C18 witness: image 1 is the selected image and alone carries the class,
\* while image 2 keeps the wrapper of its own earlier selection.
C18_Witness ==
  /\ selectedImage = 1 /\ SelectedClassImages = {1}
  /\ images[2].inDoc /\ images[2].wrapped

\* --------------------------------------------------------------------- C19
\* C19: with the runtime channel available, every step that changes the
\* selection (select, replace, clear) sends one selection-changed
\* notification whose hasSelected tells whether an image is selected
\* afterwards, and a step that leaves the selection as it is sends none; so
\* the most recent notification agrees with the selection and with the
\* answer to GET_SELECTION_STATE.
C19_NotificationFollowsSelection ==
  /\ [][hasChrome =>
          /\ selectedImage' # selectedImage
               => /\ last'.notes = <<selectedImage' # NoImage>>
                  /\ lastNotification'
                       = IF selectedImage' # NoImage THEN "true" ELSE "false"
          /\ selectedImage' = selectedImage
               => /\ last'.notes = <<>>
                  /\ lastNotification' = lastNotification]_vars
  /\ []((hasChrome /\ lastNotification # "none")
          => (lastNotification = "true" <=> selectedImage # NoImage))
  /\ []((last.op = "ANI_GET_SELECTION_STATE" /\ lastNotification # "none")
          => last.resp = <<RespState(lastNotification = "true")>>)

\* C19 witness: a CLEAR_SELECTION has just cleared a selection and sent the
\* notification hasSelected false.
C19_Witness ==
  /\ last.op = "ANI_CLEAR_SELECTION" /\ last.notes = <<FALSE>>
  /\ lastNotification = "false" /\ selectedImage = NoImage

\* --------------------------------------------------------------------- C20
\* C20: an APPLY_NOISE request that arrives while no image is selected is
\* answered ok:false (select an image first), sends no feedback and leaves
\* currentSettings, the noise texture and every image and overlay as they
\* were; with an image selected it is answered ok:true and the payload's
\* noise type, or the default for an unsupported or missing one, is stored and
\* carried by every overlay.
C20_ApplyNoiseNeedsSelection ==
  [][\A payload \in PayloadInputs :
       MsgApplyNoise(payload) =>
         IF selectedImage = NoImage
         THEN /\ last'.resp = <<RespError(MSG_SELECT_FIRST)>>
              /\ ~last'.resp[1].ok
              /\ last'.feedback = <<>>
              /\ UNCHANGED <<currentSettings, noisePattern, images>>
         ELSE /\ last'.resp = <<RespOk>>
              /\ currentSettings'.noiseType
                   = IF payload.isObj /\ payload.noiseType \in {Str("uniform"), Str("gaussian")}
                     THEN payload.noiseType.s ELSE "uniform"
              /\ OverlaysCarry(images', currentSettings', noisePattern')]_vars

\* C20 witness: an APPLY_NOISE request has just been refused for want of a
\* selection, with an image in the document and the settings still the
\* defaults.
C20_Witness ==
  /\ last.op = "ANI_APPLY_NOISE" /\ last.resp = <<RespError(MSG_SELECT_FIRST)>>
  /\ selectedImage = NoImage /\ \E i \in Imgs : images[i].inDoc
  /\ currentSettings = DEFAULT_SETTINGS
====
